---- MODULE Spec2Model ----
(***************************************************************************)
(* Model of the civet server-side readiness/status engine and event        *)
(* ingestion (ci/event.py).  The database is three tables: events, jobs    *)
(* and pull requests.  Every handler is one atomic action, as the server   *)
(* runs each request synchronously.  The worker (client/BaseClient.py) is  *)
(* a second specification: the main loop and the relay thread of each job  *)
(* run take their steps interleaved.                                       *)
(***************************************************************************)
EXTENDS Integers, FiniteSets, Sequences, TLC

VARIABLES
  events,      \* Event table: event id -> [complete, status, cause, pull_request]
  jobs,        \* Job table: <<event id, recipe, config>> -> [active, ready, complete, status, step_results]
  prs,         \* PullRequest table: number -> [closed]
  status_in,   \* argument handed to get_status (status lattice specification)
  status_out,  \* value get_status returned for status_in
  pc,          \* where the worker's main thread is in run / run_claimed_job
  run,         \* number of job runs started so far; the current run
  runner,      \* run -> how runner.run_job() ended ("none" before it has)
  produced,    \* run -> number of messages the run has put on message_q
  message_q,   \* run -> items waiting on the run's message_q
  unfinished,  \* run -> unfinished tasks of message_q (put and not task_done)
  control_q,   \* run -> items waiting on the run's control_q
  updater,     \* run -> state of the run's ServerUpdater thread
  holding,     \* run -> the updater has taken a message it has not marked done
  taken,       \* run -> the messages the updater has taken, in order
  triggered,   \* the signal groups whose InterruptHandler has triggered set
  signals,     \* number of signals delivered to the process so far
  command_q,   \* items waiting on the worker's command_q
  single_shot, \* client_info["single_shot"]
  do_poll,     \* the local do_poll of run
  last_find    \* history: what the last call of getter.find_job() did

server_vars == <<events, jobs, prs>>

relay_vars ==
  <<runner, produced, message_q, unfinished, control_q, updater, holding, taken>>

loop_vars == <<triggered, signals, command_q, single_shot, do_poll, last_find>>

client_vars ==
  <<pc, run, runner, produced, message_q, unfinished, control_q, updater, holding, taken,
    triggered, signals, command_q, single_shot, do_poll, last_find>>

vars == <<events, jobs, prs, status_in, status_out,
          pc, run, runner, produced, message_q, unfinished, control_q, updater,
          holding, taken, triggered, signals, command_q, single_shot, do_poll, last_find>>

(* ------------------------------ bounds --------------------------------- *)

\* At most this many Event rows exist at a time (ingestion of a new one is
\* held back beyond it).
MaxEvents == 2

\* The worker starts at most this many job runs.
MaxRuns == 2

\* A job run puts at most this many messages on its message queue.
MaxMessages == 2

\* At most this many signals are delivered to the worker process.
MaxSignals == 1

(* --------------------------- status lattice ---------------------------- *)

JobStatus == {"NOT_STARTED", "SUCCESS", "RUNNING", "FAILED", "FAILED_OK", "CANCELED"}

\* A value that is no member of JobStatus (an unrecognized outcome).
Unrecognized == "ACTIVATION_REQUIRED"

\* get_status with the tests for Canceled and Failed in the wrong order.
get_status_canceled_first(status) ==
  IF "CANCELED" \in status THEN "CANCELED"
  ELSE IF "FAILED" \in status THEN "FAILED"
  ELSE IF "FAILED_OK" \in status THEN "FAILED_OK"
  ELSE IF "RUNNING" \in status THEN "RUNNING"
  ELSE IF "NOT_STARTED" \in status THEN "NOT_STARTED"
  ELSE "SUCCESS"

get_status(status) ==
  IF "FAILED" \in status THEN "FAILED"
  ELSE IF "CANCELED" \in status THEN "CANCELED"
  ELSE IF "FAILED_OK" \in status THEN "FAILED_OK"
  ELSE IF "RUNNING" \in status THEN "RUNNING"
  ELSE IF "NOT_STARTED" \in status THEN "NOT_STARTED"
  ELSE IF "SUCCESS" \in status THEN "SUCCESS"
  ELSE "SUCCESS"

(* ------------------------------ recipes -------------------------------- *)

\* The Recipe table.  It is read-only for the code modelled here.
\*   A, B, C, D : push recipes of the branch; D is not active, so it never
\*                matches and never has a job
\*   P, Q, R    : pull request recipes of the repository; Q also depends on
\*                A, which has jobs only in push events
\*   M, N       : the manual recipes of the branch; N depends on M
Recipe ==
  [ A |-> [cause |-> "PUSH", active |-> TRUE, automatic |-> "FULL_AUTO",
           dependencies |-> {}, build_configs |-> {"linux"},
           auto_authorized |-> {}],
    B |-> [cause |-> "PUSH", active |-> TRUE, automatic |-> "FULL_AUTO",
           dependencies |-> {"A", "D"}, build_configs |-> {"linux"},
           auto_authorized |-> {}],
    C |-> [cause |-> "PUSH", active |-> TRUE, automatic |-> "MANUAL",
           dependencies |-> {}, build_configs |-> {"linux"},
           auto_authorized |-> {}],
    D |-> [cause |-> "PUSH", active |-> FALSE, automatic |-> "FULL_AUTO",
           dependencies |-> {}, build_configs |-> {"linux"},
           auto_authorized |-> {}],
    P |-> [cause |-> "PULL_REQUEST", active |-> TRUE, automatic |-> "FULL_AUTO",
           dependencies |-> {}, build_configs |-> {"linux"},
           auto_authorized |-> {}],
    Q |-> [cause |-> "PULL_REQUEST", active |-> TRUE, automatic |-> "AUTO_FOR_AUTHORIZED",
           dependencies |-> {"P", "A"}, build_configs |-> {"linux"},
           auto_authorized |-> {}],
    R |-> [cause |-> "PULL_REQUEST", active |-> TRUE, automatic |-> "MANUAL",
           dependencies |-> {}, build_configs |-> {"linux"},
           auto_authorized |-> {}],
    M |-> [cause |-> "MANUAL", active |-> TRUE, automatic |-> "FULL_AUTO",
           dependencies |-> {"D"}, build_configs |-> {"linux"},
           auto_authorized |-> {}],
    N |-> [cause |-> "MANUAL", active |-> TRUE, automatic |-> "FULL_AUTO",
           dependencies |-> {"M"}, build_configs |-> {"linux"},
           auto_authorized |-> {}] ]

Recipes == DOMAIN Recipe

\* Recipe.objects.filter(active=True, ..., cause=cause)
RecipesFor(cause) == {r \in Recipes : Recipe[r].active /\ Recipe[r].cause = cause}

(* ------------------------------- inputs -------------------------------- *)

\* An Event is looked up by (build_user, head, base); there is one build
\* user, and a key stands for one (base, head) pair of commits.  Push, pull
\* request and manual payloads name different pairs.
PushKeys == {"push_1"}
PRKeys == {"pr_head_1", "pr_head_2"}
ManualKeys == {"branch_latest"}
PRNumbers == {1}
\* The actions process_pull_request gives a PullRequestEvent ('opened' and
\* 'synchronize' both become OPENED), and the actions save creates events
\* for.
PRActions == {"OPENED", "CLOSED", "REOPENED"}
SaveActions == {"OPENED", "SYNCHRONIZE", "REOPENED"}

\* The owner of the repository the recipes and pull requests belong to.
RepoOwner == "owner"

\* What starting the OAuth session of the build user may do.
SessionOutcomes == {"ok", "raise"}

\* The users a pull request payload may come from.
Users == {RepoOwner, "stranger"}

\* The user who triggered a pull request payload: the head pr_head_1 was
\* pushed by the owner of the repository, pr_head_2 by somebody else.
TriggerUser(k) == IF k = "pr_head_1" THEN RepoOwner ELSE "stranger"

\* What the remote may answer to collaborator queries: the set of users it
\* reports as collaborators of the repository.
RemoteCollaborators == {{}, {"stranger"}}

\* What oauth_session.post may do when a status or a comment is sent.
PostOutcomes == {"ok", "error"}

\* What the remote services may do during one PullRequestEvent.save: the
\* session start, the collaborator answers and the posts.
AllPREnvironments == SessionOutcomes \X RemoteCollaborators \X PostOutcomes

\* The environments the ingestions of a behaviour run in: the session start
\* raises (nothing else is asked then); or it succeeds and the remote
\* reports no collaborator and takes the posts; or it succeeds and the
\* remote reports a collaborator and fails the posts.
PREnvironments ==
  {<<"raise", {}, "ok">>, <<"ok", {}, "ok">>, <<"ok", {"stranger"}, "error">>}

\* Recipe querysets are ordered by (-priority, display_name); priorities are
\* equal here.
RecipeOrder == <<"A", "B", "C", "D", "M", "N", "P", "Q", "R">>

\* A row's primary key is (key, ordinal among the rows of that key).
NoEvent == <<"none", 0>>
NoPullRequest == 0

\* The step outcomes a finished run of a job may leave behind.
StepOutcomes == {{"SUCCESS"}, {"SUCCESS", "FAILED"}, {"SUCCESS", "CANCELED"}}

(* ------------------------------ database ------------------------------- *)

DB == [events |-> events, jobs |-> jobs, prs |-> prs]

\* event.jobs.all()
JobsOf(d, ev) == {j \in DOMAIN d.jobs : j[1] = ev}

\* Field defaults of a new Event row.
NewEvent(cause) ==
  [complete |-> FALSE, status |-> "NOT_STARTED", cause |-> cause,
   pull_request |-> NoPullRequest, trigger_user |-> ""]

\* Field defaults of a new Job row.
NewJob ==
  [active |-> TRUE, ready |-> FALSE, complete |-> FALSE,
   status |-> "NOT_STARTED", step_results |-> {}]

EventsWithKey(d, k) == {e \in DOMAIN d.events : e[1] = k}

NextEventId(d, k) == <<k, Cardinality(EventsWithKey(d, k)) + 1>>

job_status(d, j) == get_status(d.jobs[j].step_results)

event_status(d, ev) == get_status({job_status(d, j) : j \in JobsOf(d, ev)})

\* cancel_event that writes Canceled on every job of the event.
cancel_event_all_jobs(d, ev) ==
  [d EXCEPT
     !.jobs = [j \in DOMAIN d.jobs |->
                 IF j[1] = ev
                 THEN [d.jobs[j] EXCEPT !.status = "CANCELED", !.complete = TRUE]
                 ELSE d.jobs[j]],
     !.events[ev] = [@ EXCEPT !.complete = TRUE, !.status = "CANCELED"]]

\* cancel_event that leaves its loop after the first job it cancels.
cancel_event_one_job(d, ev) ==
  LET todo == {j \in DOMAIN d.jobs : j[1] = ev /\ ~d.jobs[j].complete}
      first == CHOOSE j \in todo : TRUE
  IN [d EXCEPT
        !.jobs = [j \in DOMAIN d.jobs |->
                    IF todo # {} /\ j = first
                    THEN [d.jobs[j] EXCEPT !.status = "CANCELED", !.complete = TRUE]
                    ELSE d.jobs[j]],
        !.events[ev] = [@ EXCEPT !.complete = TRUE, !.status = "CANCELED"]]

\* cancel_event that completes the jobs without writing their status.
cancel_event_no_status(d, ev) ==
  [d EXCEPT
     !.jobs = [j \in DOMAIN d.jobs |->
                 IF j[1] = ev /\ ~d.jobs[j].complete
                 THEN [d.jobs[j] EXCEPT !.complete = TRUE]
                 ELSE d.jobs[j]],
     !.events[ev] = [@ EXCEPT !.complete = TRUE, !.status = "CANCELED"]]

cancel_event(d, ev) ==
  [d EXCEPT
     !.jobs = [j \in DOMAIN d.jobs |->
                 IF j[1] = ev /\ ~d.jobs[j].complete
                 THEN [d.jobs[j] EXCEPT !.status = "CANCELED", !.complete = TRUE]
                 ELSE d.jobs[j]],
     !.events[ev] = [@ EXCEPT !.complete = TRUE, !.status = "CANCELED"]]

\* depends_met with dep.jobs.all() in place of dep.jobs.filter(event=event).
depends_met_any_event(d, ev, j) ==
  LET completed_set == {c \in JobsOf(d, ev) : d.jobs[c].complete}
  IN \A dep \in Recipe[j[2]].dependencies :
       {k \in DOMAIN d.jobs : k[2] = dep} \subseteq completed_set

\* The body of the loop of make_jobs_ready: whether job j has its depends met.
depends_met(d, ev, j) ==
  LET completed_set == {c \in JobsOf(d, ev) : d.jobs[c].complete}
  IN \A dep \in Recipe[j[2]].dependencies :
       {k \in DOMAIN d.jobs : k[2] = dep /\ k[1] = ev} \subseteq completed_set

\* make_jobs_ready that counts only the active jobs of the event.
make_jobs_ready_active_only(d, ev) ==
  LET status == event_status(d, ev)
      active_jobs == {j \in JobsOf(d, ev) : d.jobs[j].active}
      completed_jobs == {j \in active_jobs : d.jobs[j].complete}
  IN IF Cardinality(active_jobs) = Cardinality(completed_jobs)
     THEN [d EXCEPT !.events[ev].complete = TRUE]
     ELSE IF status = "FAILED" \/ status = "CANCELED"
     THEN d
     ELSE [d EXCEPT
             !.jobs = [j \in DOMAIN d.jobs |->
                         IF j[1] = ev /\ d.jobs[j].active
                         THEN [d.jobs[j] EXCEPT !.ready = depends_met(d, ev, j)]
                         ELSE d.jobs[j]]]

\* make_jobs_ready whose loop runs over the active jobs of every event.
make_jobs_ready_every_event(d, ev) ==
  LET status == event_status(d, ev)
      completed_jobs == {j \in JobsOf(d, ev) : d.jobs[j].complete}
  IN IF Cardinality(JobsOf(d, ev)) = Cardinality(completed_jobs)
     THEN [d EXCEPT !.events[ev].complete = TRUE]
     ELSE IF status = "FAILED" \/ status = "CANCELED"
     THEN d
     ELSE [d EXCEPT
             !.jobs = [j \in DOMAIN d.jobs |->
                         IF d.jobs[j].active
                         THEN [d.jobs[j] EXCEPT !.ready = depends_met(d, j[1], j)]
                         ELSE d.jobs[j]]]

\* make_jobs_ready whose loop runs over all the jobs of the event.
make_jobs_ready_inactive_too(d, ev) ==
  LET status == event_status(d, ev)
      completed_jobs == {j \in JobsOf(d, ev) : d.jobs[j].complete}
  IN IF Cardinality(JobsOf(d, ev)) = Cardinality(completed_jobs)
     THEN [d EXCEPT !.events[ev].complete = TRUE]
     ELSE IF status = "FAILED" \/ status = "CANCELED"
     THEN d
     ELSE [d EXCEPT
             !.jobs = [j \in DOMAIN d.jobs |->
                         IF j[1] = ev
                         THEN [d.jobs[j] EXCEPT !.ready = depends_met(d, ev, j)]
                         ELSE d.jobs[j]]]

\* make_jobs_ready without the return on a Failed or Canceled event.
make_jobs_ready_no_fail_fast(d, ev) ==
  LET completed_jobs == {j \in JobsOf(d, ev) : d.jobs[j].complete}
  IN IF Cardinality(JobsOf(d, ev)) = Cardinality(completed_jobs)
     THEN [d EXCEPT !.events[ev].complete = TRUE]
     ELSE [d EXCEPT
             !.jobs = [j \in DOMAIN d.jobs |->
                         IF j[1] = ev /\ d.jobs[j].active
                         THEN [d.jobs[j] EXCEPT !.ready = depends_met(d, ev, j)]
                         ELSE d.jobs[j]]]

make_jobs_ready(d, ev) ==
  LET status == event_status(d, ev)
      completed_jobs == {j \in JobsOf(d, ev) : d.jobs[j].complete}
  IN IF Cardinality(JobsOf(d, ev)) = Cardinality(completed_jobs)
     THEN [d EXCEPT !.events[ev].complete = TRUE]
     ELSE IF status = "FAILED" \/ status = "CANCELED"
     THEN d
     ELSE [d EXCEPT
             !.jobs = [j \in DOMAIN d.jobs |->
                         IF j[1] = ev /\ d.jobs[j].active
                         THEN [d.jobs[j] EXCEPT !.ready = depends_met(d, ev, j)]
                         ELSE d.jobs[j]]]

\* Job.objects.get_or_create(recipe, event, config) for every build
\* configuration of every recipe in rs; a created job is active when its
\* recipe is in the set active.
create_jobs(d, ev, rs, active) ==
  LET wanted == {<<ev, r, c>> : r \in rs, c \in UNION {Recipe[x].build_configs : x \in rs}}
      new == {j \in wanted : j[3] \in Recipe[j[2]].build_configs /\ j \notin DOMAIN d.jobs}
  IN [d EXCEPT
        !.jobs = [j \in DOMAIN d.jobs \cup new |->
                    IF j \in DOMAIN d.jobs THEN d.jobs[j]
                    ELSE [NewJob EXCEPT !.active = (j[2] \in active)]]]

(* ----------------------------- ingestion ------------------------------- *)

push_active(r) == Recipe[r].automatic # "MANUAL"

\* The loop of PushEvent._process_recipes: the jobs of the event.
PushEvent_jobs(d, ev, recipes) ==
  create_jobs(d, ev, {r \in recipes : Recipe[r].active},
              {r \in recipes : push_active(r)})

PushEvent_process_recipes(d, ev, recipes) ==
  make_jobs_ready(PushEvent_jobs(d, ev, recipes), ev)

\* The Event row PushEvent.save works on: the one get_or_create finds by
\* (build_user, head, base, complete=False, cause=PUSH), or the id of the
\* one it creates.
PushEvent_lookup(d, k) ==
  LET found == {e \in EventsWithKey(d, k) :
                  ~d.events[e].complete /\ d.events[e].cause = "PUSH"}
  IN IF found # {} THEN CHOOSE e \in found : TRUE ELSE NextEventId(d, k)

\* Event.objects.get_or_create of PushEvent.save.
PushEvent_event(d, k) ==
  LET ev == PushEvent_lookup(d, k)
  IN IF ev \in DOMAIN d.events THEN d
     ELSE [d EXCEPT !.events = @ @@ (ev :> NewEvent("PUSH"))]

PushEvent_save(d, k) ==
  LET recipes == RecipesFor("PUSH")
  IN IF recipes = {} THEN d
     ELSE PushEvent_process_recipes(PushEvent_event(d, k), PushEvent_lookup(d, k), recipes)

manual_active(r) == Recipe[r].active

\* The loop of ManualEvent._process_recipes.
ManualEvent_jobs(d, ev, recipes) ==
  create_jobs(d, ev, recipes, {r \in recipes : manual_active(r)})

ManualEvent_process_recipes(d, ev, recipes) ==
  make_jobs_ready(ManualEvent_jobs(d, ev, recipes), ev)

ManualEvent_lookup(d, k) ==
  LET found == {e \in EventsWithKey(d, k) : d.events[e].cause = "MANUAL"}
  IN IF found # {} THEN CHOOSE e \in found : TRUE ELSE NextEventId(d, k)

\* Event.objects.get_or_create of ManualEvent.save; complete is written only
\* on a created row.
ManualEvent_event(d, k) ==
  LET ev == ManualEvent_lookup(d, k)
  IN IF ev \in DOMAIN d.events THEN d
     ELSE [d EXCEPT !.events = @ @@ (ev :> NewEvent("MANUAL"))]

ManualEvent_save(d, k) ==
  LET recipes == RecipesFor("MANUAL")
  IN IF recipes = {} THEN d
     ELSE ManualEvent_process_recipes(ManualEvent_event(d, k), ManualEvent_lookup(d, k), recipes)

\* GitHubAPI.is_collaborator: the owner of the repository is one without
\* asking; otherwise it is what the remote answers (204 or not).
is_collaborator(user, repo_user, remote) ==
  IF repo_user = user THEN TRUE ELSE user \in remote

\* GitHubAPI.update_pr_status that lets the exception of the post escape.
update_pr_status_unguarded(post) ==
  IF post = "error" THEN "raised" ELSE "returned"

\* GitHubAPI.update_pr_status: the post is inside try/except, an error is
\* logged.
update_pr_status(post) == "returned"

\* GitHubAPI.pr_comment: the post is inside try/except, an error is logged.
pr_comment(post) == "returned"

\* The loop over pr.events.all() that cancels nothing.
cancel_events_none(d, evs) == d

\* cancel_event on each event of evs (the loop over pr.events.all()).
RECURSIVE cancel_events(_, _)
cancel_events(d, evs) ==
  IF evs = {} THEN d
  ELSE LET old_ev == CHOOSE e \in evs : TRUE
       IN cancel_events(cancel_event(d, old_ev), evs \ {old_ev})

\* _already_exists that also cancels the events of the pull request it
\* closes.
PullRequestEvent_already_exists_cancels(d, n, action) ==
  IF n \notin DOMAIN d.prs THEN d
  ELSE IF action = "CLOSED" /\ ~d.prs[n].closed
  THEN cancel_events([d EXCEPT !.prs[n].closed = TRUE],
                     {o \in DOMAIN d.events : d.events[o].pull_request = n})
  ELSE d

PullRequestEvent_already_exists(d, n, action) ==
  IF n \notin DOMAIN d.prs THEN d
  ELSE IF action = "CLOSED" /\ ~d.prs[n].closed
  THEN [d EXCEPT !.prs[n].closed = TRUE]
  ELSE d

\* The Event row _create_new_pr works on: get_or_create by (build_user,
\* head, base) alone.
PullRequestEvent_lookup(d, k) ==
  LET found == EventsWithKey(d, k)
  IN IF found # {} THEN CHOOSE e \in found : TRUE ELSE NextEventId(d, k)

\* _create_new_pr that cancels the previous events only for a pull request
\* it has just created.
PullRequestEvent_create_new_pr_created_only(d, n, k, trigger) ==
  LET pr_created == n \notin DOMAIN d.prs
      ev == PullRequestEvent_lookup(d, k)
      ev_created == ev \notin DOMAIN d.events
      d1 == [d EXCEPT !.prs = IF pr_created THEN @ @@ (n :> [closed |-> FALSE])
                                ELSE [@ EXCEPT ![n].closed = FALSE]]
      d2 == IF ev_created
            THEN [d1 EXCEPT !.events = @ @@ (ev :> NewEvent("NOT_SET"))]
            ELSE d1
      d3 == [d2 EXCEPT !.events[ev] = [@ EXCEPT !.complete = FALSE,
                                                !.cause = "PULL_REQUEST",
                                                !.trigger_user = trigger,
                                                !.pull_request = n]]
  IN IF pr_created /\ ev_created
     THEN cancel_events(d3, {o \in DOMAIN d3.events :
                               d3.events[o].pull_request = n /\ o # ev})
     ELSE d3

PullRequestEvent_create_new_pr(d, n, k, trigger) ==
  LET pr_created == n \notin DOMAIN d.prs
      ev == PullRequestEvent_lookup(d, k)
      ev_created == ev \notin DOMAIN d.events
      d1 == [d EXCEPT !.prs = IF pr_created THEN @ @@ (n :> [closed |-> FALSE])
                                ELSE [@ EXCEPT ![n].closed = FALSE]]
      d2 == IF ev_created
            THEN [d1 EXCEPT !.events = @ @@ (ev :> NewEvent("NOT_SET"))]
            ELSE d1
      d3 == [d2 EXCEPT !.events[ev] = [@ EXCEPT !.complete = FALSE,
                                                !.cause = "PULL_REQUEST",
                                                !.trigger_user = trigger,
                                                !.pull_request = n]]
  IN IF ~pr_created /\ ev_created
     THEN cancel_events(d3, {o \in DOMAIN d3.events :
                               d3.events[o].pull_request = n /\ o # ev})
     ELSE d3

\* The active flag _check_recipe computes; user is pr.repository.user.
check_recipe_active(r, remote) ==
  LET user == RepoOwner
  IN IF Recipe[r].automatic = "FULL_AUTO" THEN TRUE
     ELSE IF Recipe[r].automatic = "MANUAL" THEN FALSE
     ELSE IF Recipe[r].automatic = "AUTO_FOR_AUTHORIZED"
     THEN IF user \in Recipe[r].auto_authorized THEN TRUE
          ELSE is_collaborator(user, RepoOwner, remote)
     ELSE FALSE

\* _check_recipe raises when a notification it sends for a job it creates
\* raises: the comment for a job that is not active, or the status.
check_recipe_raised(d, ev, r, remote, post) ==
  /\ Recipe[r].active
  /\ \E c \in Recipe[r].build_configs : <<ev, r, c>> \notin DOMAIN d.jobs
  /\ \/ ~check_recipe_active(r, remote) /\ pr_comment(post) = "raised"
     \/ update_pr_status(post) = "raised"

\* The loop of _process_recipes over the ordered recipes: _check_recipe runs
\* for every recipe up to the first one that raises, that one included (its
\* job is saved before the notification is sent).  The result is the
\* database the loop leaves and whether an exception ended it.
check_recipes(d, ev, recipes, remote, post) ==
  LET raising == {i \in 1..Len(recipes) :
                    check_recipe_raised(d, ev, recipes[i], remote, post)}
      last == IF raising = {} THEN Len(recipes)
              ELSE CHOOSE i \in raising : \A x \in raising : i <= x
      checked == {recipes[i] : i \in 1..last}
  IN [db |-> create_jobs(d, ev, {r \in checked : Recipe[r].active},
                         {r \in checked : check_recipe_active(r, remote)}),
      raised |-> raising # {}]

\* session is what start_session_for_user does before the loop.
PullRequestEvent_process_recipes(d, ev, recipes, session, remote, post) ==
  IF session = "raise" THEN [db |-> d, raised |-> TRUE]
  ELSE check_recipes(d, ev, SelectSeq(RecipeOrder, LAMBDA r : r \in recipes),
                     remote, post)

\* An exception of _process_recipes is caught by save, which then skips
\* make_jobs_ready.
PullRequestEvent_save(d, n, action, k, trigger, session, remote, post) ==
  IF action = "CLOSED" THEN PullRequestEvent_already_exists(d, n, action)
  ELSE IF action \in SaveActions
  THEN LET recipes == RecipesFor("PULL_REQUEST")
           ev == PullRequestEvent_lookup(d, k)
           d1 == PullRequestEvent_create_new_pr(d, n, k, trigger)
           done == PullRequestEvent_process_recipes(d1, ev, recipes, session, remote, post)
       IN IF recipes = {} THEN d
          ELSE IF done.raised THEN done.db
          ELSE make_jobs_ready(done.db, ev)
  ELSE d

(* ------------------------------ actions -------------------------------- *)

Commit(d) ==
  /\ events' = d.events
  /\ jobs' = d.jobs
  /\ prs' = d.prs

\* Room for the Event row an ingestion of key k would create.
Room(ev) == ev \in DOMAIN events \/ Cardinality(DOMAIN events) < MaxEvents

PushSave(k) ==
  /\ Room(PushEvent_lookup(DB, k))
  /\ Commit(PushEvent_save(DB, k))
  /\ UNCHANGED <<status_in, status_out, client_vars>>

ManualSave(k) ==
  /\ Room(ManualEvent_lookup(DB, k))
  /\ Commit(ManualEvent_save(DB, k))
  /\ UNCHANGED <<status_in, status_out, client_vars>>

\* PullRequestEvent.save with action opened, reopened or synchronize.
PullRequestSave(n, action, k, session, remote, post) ==
  /\ Room(PullRequestEvent_lookup(DB, k))
  /\ Commit(PullRequestEvent_save(DB, n, action, k, TriggerUser(k), session, remote, post))
  /\ UNCHANGED <<status_in, status_out, client_vars>>

\* PullRequestEvent.save with action closed: it starts no session and asks
\* the remote nothing.
PullRequestClosed(n) ==
  /\ Commit(PullRequestEvent_save(DB, n, "CLOSED", "pr_head_1", RepoOwner, "ok", {}, "ok"))
  /\ UNCHANGED <<status_in, status_out, client_vars>>

\* The job-execution collaborator reports the terminal outcome of a job a
\* worker claimed (ready and active): the step results are stored, the job
\* is complete with the aggregate of its steps as status, and the readiness
\* engine re-evaluates the event.
job_complete(d, j, steps) ==
  [d EXCEPT !.jobs[j].step_results = steps,
            !.jobs[j].complete = TRUE,
            !.jobs[j].status = get_status(steps)]

\* The completion of a job that is not followed by make_jobs_ready.
job_finished_no_ready(d, j, steps) == job_complete(d, j, steps)

job_finished(d, j, steps) == make_jobs_ready(job_complete(d, j, steps), j[1])

\* The jobs a worker may hold: ready, active and not complete.
Claimable(d) ==
  {j \in DOMAIN d.jobs : d.jobs[j].ready /\ d.jobs[j].active /\ ~d.jobs[j].complete}

JobFinished(j, steps) ==
  /\ j \in Claimable(DB)
  /\ Commit(job_finished(DB, j, steps))
  /\ UNCHANGED <<status_in, status_out, client_vars>>

MakeJobsReady(ev) ==
  /\ Commit(make_jobs_ready(DB, ev))
  /\ UNCHANGED <<status_in, status_out, client_vars>>

CancelEvent(ev) ==
  /\ Commit(cancel_event(DB, ev))
  /\ UNCHANGED <<status_in, status_out, client_vars>>

\* The worker before its main loop starts: no run yet, no queue, no thread,
\* no signal received; single-shot mode is a setting of the client.
Runs == 1..MaxRuns

ClientInit ==
  /\ pc = "find_job"
  /\ run = 0
  /\ runner = [r \in Runs |-> "none"]
  /\ produced = [r \in Runs |-> 0]
  /\ message_q = [r \in Runs |-> <<>>]
  /\ unfinished = [r \in Runs |-> 0]
  /\ control_q = [r \in Runs |-> <<>>]
  /\ updater = [r \in Runs |-> "not_started"]
  /\ holding = [r \in Runs |-> FALSE]
  /\ taken = [r \in Runs |-> <<>>]
  /\ triggered = {}
  /\ signals = 0
  /\ command_q = <<>>
  /\ single_shot \in BOOLEAN
  /\ do_poll = TRUE
  /\ last_find = "not_called"

ServerInit ==
  /\ events = <<>>
  /\ jobs = <<>>
  /\ prs = <<>>
  /\ status_in = {}
  /\ status_out = "none"

Init ==
  /\ ServerInit
  /\ ClientInit
  /\ ~single_shot

Next ==
  \/ \E k \in PushKeys : PushSave(k)
  \/ \E k \in ManualKeys : ManualSave(k)
  \/ \E n \in PRNumbers, action \in PRActions \ {"CLOSED"}, k \in PRKeys :
       \E env \in PREnvironments :
         PullRequestSave(n, action, k, env[1], env[2], env[3])
  \/ \E n \in PRNumbers : PullRequestClosed(n)
  \/ \E j \in DOMAIN jobs : \E steps \in StepOutcomes : JobFinished(j, steps)
  \/ \E ev \in DOMAIN events : MakeJobsReady(ev)
  \/ \E ev \in DOMAIN events : CancelEvent(ev)

Spec == Init /\ [][Next]_vars

\* The readiness engine on the events of pushes and manual requests: a
\* pull request event always has the inactive job of its manual recipe.
NextReady ==
  \/ \E k \in PushKeys : PushSave(k)
  \/ \E k \in ManualKeys : ManualSave(k)
  \/ \E j \in DOMAIN jobs : \E steps \in StepOutcomes : JobFinished(j, steps)
  \/ \E ev \in DOMAIN events : MakeJobsReady(ev)
  \/ \E ev \in DOMAIN events : CancelEvent(ev)

\* The ids an Event row of a push or a manual request can have: there is one
\* row for a (base, head) pair.
EventIds == {NextEventId([events |-> <<>>], k) : k \in PushKeys \cup ManualKeys}

\* While a job is ready and active, a worker eventually runs a job to its
\* end and the server is told of it.
FairJobs == WF_vars(\E j \in DOMAIN jobs : \E steps \in StepOutcomes : JobFinished(j, steps))

SpecFair == Init /\ [][NextReady]_vars /\ FairJobs

(* ------------------- status lattice specification ---------------------- *)

\* get_status is a pure function: this specification hands it every set of
\* outcomes, recognized or not, and records what it returns.
StatusValues == JobStatus \cup {Unrecognized}

InitStatus ==
  /\ events = <<>>
  /\ jobs = <<>>
  /\ prs = <<>>
  /\ status_in \in SUBSET StatusValues
  /\ status_out = "none"
  /\ ClientInit
  /\ ~single_shot

GetStatus ==
  /\ status_out = "none"
  /\ status_out' = get_status(status_in)
  /\ UNCHANGED <<events, jobs, prs, status_in, client_vars>>

NextStatus == GetStatus

SpecStatus == InitStatus /\ [][NextStatus]_vars

(* ------------------------ worker specification ------------------------ *)

\* What getter.find_job() may do: return a claimed job, return nothing, or
\* raise.
FindOutcomes == {"claimed", "none", "raise"}

\* How runner.run_job() may end: it returns with the job finished or failed,
\* returns with runner.stopped or runner.canceled set, or raises.
RunOutcomes == {"finished", "failed", "stopped", "canceled", "raised"}

\* The two signal groups: cancel_signal (SIGUSR1, SIGINT) and graceful_signal
\* (SIGUSR2).
SignalKinds == {"cancel", "graceful"}

\* find_job whose exception is not caught and ends run.
FindJob_uncaught(found) ==
  /\ pc = "find_job"
  /\ last_find' = found
  /\ IF found = "claimed"
     THEN /\ run < MaxRuns
          /\ run' = run + 1
          /\ control_q' = [control_q EXCEPT ![run + 1] = <<"notice">>]
          /\ updater' = [updater EXCEPT ![run + 1] = "running"]
          /\ pc' = "run_job"
     ELSE /\ pc' = IF found = "raise" THEN "stopped" ELSE "loop_end"
          /\ UNCHANGED <<run, control_q, updater>>
  /\ UNCHANGED <<runner, produced, message_q, unfinished, holding, taken>>
  /\ UNCHANGED <<triggered, signals, command_q, single_shot, do_poll>>
  /\ UNCHANGED <<server_vars, status_in, status_out>>

\* run: getter.find_job(); with a claimed job run_claimed_job begins: the
\* queues are made, the notice for the server is put on control_q and the
\* ServerUpdater thread is started.  Without one, or on an exception, the
\* turn of the loop goes to its end with do_poll still true.
FindJob(found) ==
  /\ pc = "find_job"
  /\ last_find' = found
  /\ IF found = "claimed"
     THEN /\ run < MaxRuns
          /\ run' = run + 1
          /\ control_q' = [control_q EXCEPT ![run + 1] = <<"notice">>]
          /\ updater' = [updater EXCEPT ![run + 1] = "running"]
          /\ pc' = "run_job"
     ELSE /\ pc' = "loop_end"
          /\ UNCHANGED <<run, control_q, updater>>
  /\ UNCHANGED <<runner, produced, message_q, unfinished, holding, taken>>
  /\ UNCHANGED <<triggered, signals, command_q, single_shot, do_poll>>
  /\ UNCHANGED <<server_vars, status_in, status_out>>

\* The end of a turn that does not look at single_shot.
LoopEnd_ignores_single_shot ==
  /\ pc = "loop_end"
  /\ pc' = IF triggered # {} THEN "stopped"
           ELSE IF do_poll THEN "sleep"
           ELSE "find_job"
  /\ do_poll' = (do_poll \/ triggered = {})
  /\ UNCHANGED <<run, relay_vars, triggered, signals, command_q, single_shot, last_find>>
  /\ UNCHANGED <<server_vars, status_in, status_out>>

\* The end of a turn that does not look at the signals.
LoopEnd_ignores_signals ==
  /\ pc = "loop_end"
  /\ pc' = IF single_shot THEN "stopped"
           ELSE IF do_poll THEN "sleep"
           ELSE "find_job"
  /\ do_poll' = (do_poll \/ ~single_shot)
  /\ UNCHANGED <<run, relay_vars, triggered, signals, command_q, single_shot, last_find>>
  /\ UNCHANGED <<server_vars, status_in, status_out>>

\* run: the end of a turn of the loop: the loop is left when a signal has
\* triggered or the client is single shot; else it sleeps when do_poll is
\* true and starts the next turn (do_poll = True) at once when it is not.
LoopEnd ==
  /\ pc = "loop_end"
  /\ pc' = IF triggered # {} THEN "stopped"
           ELSE IF single_shot THEN "stopped"
           ELSE IF do_poll THEN "sleep"
           ELSE "find_job"
  /\ do_poll' = (do_poll \/ (triggered = {} /\ ~single_shot))
  /\ UNCHANGED <<run, relay_vars, triggered, signals, command_q, single_shot, last_find>>
  /\ UNCHANGED <<server_vars, status_in, status_out>>

\* run: time.sleep(poll) returns and the next turn of the loop starts.
Sleep ==
  /\ pc = "sleep"
  /\ pc' = "find_job"
  /\ do_poll' = TRUE
  /\ UNCHANGED <<run, relay_vars, triggered, signals, command_q, single_shot, last_find>>
  /\ UNCHANGED <<server_vars, status_in, status_out>>

\* A signal of one of the two groups is delivered while the process runs:
\* the InterruptHandler sets its triggered flag and puts its message on
\* command_q.
Signal(kind) ==
  /\ pc # "stopped"
  /\ signals < MaxSignals
  /\ signals' = signals + 1
  /\ triggered' = triggered \cup {kind}
  /\ command_q' = Append(command_q, kind)
  /\ UNCHANGED <<pc, run, relay_vars, single_shot, do_poll, last_find>>
  /\ UNCHANGED <<server_vars, status_in, status_out>>

\* runner.run_job() takes the next item of command_q to see whether it must
\* end the job early.
RunnerGetsCommand ==
  /\ pc = "run_job"
  /\ command_q # <<>>
  /\ command_q' = Tail(command_q)
  /\ UNCHANGED <<pc, run, relay_vars, triggered, signals, single_shot, do_poll, last_find>>
  /\ UNCHANGED <<server_vars, status_in, status_out>>

\* runner.run_job() puts its next message on message_q.
PutMessage ==
  /\ pc = "run_job"
  /\ produced[run] < MaxMessages
  /\ produced' = [produced EXCEPT ![run] = @ + 1]
  /\ message_q' = [message_q EXCEPT ![run] = Append(@, produced[run] + 1)]
  /\ unfinished' = [unfinished EXCEPT ![run] = @ + 1]
  /\ UNCHANGED <<pc, run, runner, control_q, updater, holding, taken, loop_vars>>
  /\ UNCHANGED <<server_vars, status_in, status_out>>

\* runner.run_job() ends.  An exception leaves run_claimed_job and is caught
\* in run, whose turn goes to its end with do_poll still true; a stopped or
\* canceled run skips message_q.join().
RunJobEnds(outcome) ==
  /\ pc = "run_job"
  /\ runner' = [runner EXCEPT ![run] = outcome]
  /\ pc' = IF outcome = "raised" THEN "loop_end"
           ELSE IF outcome # "stopped" /\ outcome # "canceled" THEN "join_message_q"
           ELSE "put_quit"
  /\ UNCHANGED <<run, produced, message_q, unfinished, control_q, updater, holding, taken>>
  /\ UNCHANGED <<loop_vars, server_vars, status_in, status_out>>

\* message_q.join() that returns at once.
JoinMessageQ_no_wait ==
  /\ pc = "join_message_q"
  /\ pc' = "put_quit"
  /\ UNCHANGED <<run, relay_vars, loop_vars>>
  /\ UNCHANGED <<server_vars, status_in, status_out>>

\* message_q.join(): returns when every item put has been marked done.
JoinMessageQ ==
  /\ pc = "join_message_q"
  /\ unfinished[run] = 0
  /\ pc' = "put_quit"
  /\ UNCHANGED <<run, relay_vars, loop_vars>>
  /\ UNCHANGED <<server_vars, status_in, status_out>>

\* control_q.put({"command": "Quit"})
PutQuit ==
  /\ pc = "put_quit"
  /\ control_q' = [control_q EXCEPT ![run] = Append(@, "Quit")]
  /\ pc' = "join_updater"
  /\ UNCHANGED <<run, runner, produced, message_q, unfinished, updater, holding, taken>>
  /\ UNCHANGED <<loop_vars, server_vars, status_in, status_out>>

\* updater_thread.join() and self.command_q.queue.clear(); run_claimed_job
\* returns and run sets do_poll = False.
JoinUpdater ==
  /\ pc = "join_updater"
  /\ updater[run] = "exited"
  /\ command_q' = <<>>
  /\ do_poll' = FALSE
  /\ pc' = "loop_end"
  /\ UNCHANGED <<run, relay_vars, triggered, signals, single_shot, last_find>>
  /\ UNCHANGED <<server_vars, status_in, status_out>>

\* ServerUpdater.run of run r takes the next control item; Quit ends the
\* thread.
UpdaterControl(r) ==
  /\ updater[r] = "running"
  /\ ~holding[r]
  /\ control_q[r] # <<>>
  /\ control_q' = [control_q EXCEPT ![r] = Tail(@)]
  /\ updater' = [updater EXCEPT ![r] = IF Head(control_q[r]) = "Quit" THEN "exited" ELSE @]
  /\ UNCHANGED <<pc, run, runner, produced, message_q, unfinished, holding, taken>>
  /\ UNCHANGED <<loop_vars, server_vars, status_in, status_out>>

\* ServerUpdater.run of run r takes the next message to send it.
UpdaterGet(r) ==
  /\ updater[r] = "running"
  /\ ~holding[r]
  /\ message_q[r] # <<>>
  /\ message_q' = [message_q EXCEPT ![r] = Tail(@)]
  /\ taken' = [taken EXCEPT ![r] = Append(@, Head(message_q[r]))]
  /\ holding' = [holding EXCEPT ![r] = TRUE]
  /\ UNCHANGED <<pc, run, runner, produced, unfinished, control_q, updater>>
  /\ UNCHANGED <<loop_vars, server_vars, status_in, status_out>>

\* ServerUpdater.run of run r marks the message it took as done.
UpdaterTaskDone(r) ==
  /\ updater[r] = "running"
  /\ holding[r]
  /\ holding' = [holding EXCEPT ![r] = FALSE]
  /\ unfinished' = [unfinished EXCEPT ![r] = @ - 1]
  /\ UNCHANGED <<pc, run, runner, produced, message_q, control_q, updater, taken>>
  /\ UNCHANGED <<loop_vars, server_vars, status_in, status_out>>

InitClient == ServerInit /\ ClientInit

\* The worker with its relay threads, in a process that receives no signal.
NextClient ==
  \/ \E found \in FindOutcomes : FindJob(found)
  \/ LoopEnd
  \/ Sleep
  \/ PutMessage
  \/ \E outcome \in RunOutcomes : RunJobEnds(outcome)
  \/ JoinMessageQ
  \/ PutQuit
  \/ JoinUpdater
  \/ \E r \in Runs : UpdaterControl(r)
  \/ \E r \in Runs : UpdaterGet(r)
  \/ \E r \in Runs : UpdaterTaskDone(r)

SpecClient == InitClient /\ [][NextClient]_vars

\* The worker's main loop in a process that receives signals, with job runs
\* that put no message on message_q: the relay thread of a run then only
\* takes its control items.
NextLoop ==
  \/ \E found \in FindOutcomes : FindJob(found)
  \/ LoopEnd
  \/ Sleep
  \/ \E kind \in SignalKinds : Signal(kind)
  \/ RunnerGetsCommand
  \/ \E outcome \in RunOutcomes : RunJobEnds(outcome)
  \/ JoinMessageQ
  \/ PutQuit
  \/ JoinUpdater
  \/ \E r \in Runs : UpdaterControl(r)

SpecLoop == InitClient /\ [][NextLoop]_vars

\* Every find_job call and every job run terminates, the sleep ends, and a
\* thread that can take a step is scheduled.
FairLoop ==
  /\ WF_vars(\E found \in FindOutcomes : FindJob(found))
  /\ WF_vars(LoopEnd)
  /\ WF_vars(Sleep)
  /\ WF_vars(\E outcome \in RunOutcomes : RunJobEnds(outcome))
  /\ WF_vars(JoinMessageQ)
  /\ WF_vars(PutQuit)
  /\ WF_vars(JoinUpdater)
  /\ \A r \in Runs : WF_vars(UpdaterControl(r))

SpecLoopFair == SpecLoop /\ FairLoop

(* ------------------------------- claims -------------------------------- *)

\* Every place the program calls make_jobs_ready from the current database:
\* the pair of the database it is handed and the event.
ReadyCalls ==
  {<<DB, ev>> : ev \in DOMAIN events}
  \cup {<<job_complete(DB, j, steps), j[1]>> : j \in Claimable(DB), steps \in StepOutcomes}
  \cup {<<PushEvent_jobs(PushEvent_event(DB, k), PushEvent_lookup(DB, k), RecipesFor("PUSH")),
          PushEvent_lookup(DB, k)>> : k \in PushKeys}
  \cup {<<ManualEvent_jobs(ManualEvent_event(DB, k), ManualEvent_lookup(DB, k), RecipesFor("MANUAL")),
          ManualEvent_lookup(DB, k)>> : k \in ManualKeys}
  \cup {<<PullRequestEvent_process_recipes(
            PullRequestEvent_create_new_pr(DB, c[1], c[2], TriggerUser(c[2])),
            PullRequestEvent_lookup(DB, c[2]),
            RecipesFor("PULL_REQUEST"), "ok", c[3], c[4]).db,
          PullRequestEvent_lookup(DB, c[2])>> :
          c \in PRNumbers \X PRKeys \X RemoteCollaborators \X PostOutcomes}

\* Every job of the event is complete.
FullyComplete(d, ev) == \A j \in JobsOf(d, ev) : d.jobs[j].complete

\* Every job of every dependency recipe of j's recipe that belongs to j's
\* event is complete.
DependenciesComplete(d, j) ==
  \A k \in DOMAIN d.jobs :
    (k[1] = j[1] /\ k[2] \in Recipe[j[2]].dependencies) => d.jobs[k].complete

ReadyIffDependenciesComplete(d, ev) ==
  \A j \in JobsOf(d, ev) :
    d.jobs[j].active => (d.jobs[j].ready <=> DependenciesComplete(d, j))

\* C1: after make_jobs_ready(event) has run on an event that is not fully
\* complete and whose aggregated status is neither Failed nor Canceled, every
\* active job of the event is ready if and only if every job of its
\* dependency recipes in this same event is complete (a recipe without
\* dependencies, or whose dependency recipes have no job in the event, is
\* ready; jobs of other events do not count).  For a new push event: the
\* jobs of A are ready and the job of B is not.
C1_ReadyIffDependenciesComplete ==
  /\ \A c \in ReadyCalls :
       (~FullyComplete(c[1], c[2]) /\ event_status(c[1], c[2]) \notin {"FAILED", "CANCELED"})
         => ReadyIffDependenciesComplete(make_jobs_ready(c[1], c[2]), c[2])
  /\ \A k \in PushKeys :
       LET ev == PushEvent_lookup(DB, k)
           d == PushEvent_save(DB, k)
       IN ev \notin DOMAIN events =>
            /\ \A j \in JobsOf(d, ev) : j[2] = "A" => d.jobs[j].ready
            /\ \A j \in JobsOf(d, ev) : j[2] = "B" => ~d.jobs[j].ready
            /\ \E j \in JobsOf(d, ev) : j[2] = "B"

\* C1 witness: B has been made ready in a push event whose A jobs are all
\* complete, while Q is ready in a pull request event and depends on A, whose
\* jobs exist only in the push event.
C1_Witness ==
  \E e1 \in DOMAIN events, e2 \in DOMAIN events :
    /\ events[e1].cause = "PUSH" /\ events[e2].cause = "PULL_REQUEST"
    /\ ~events[e1].complete
    /\ \E j \in JobsOf(DB, e1) : j[2] = "B" /\ jobs[j].ready
    /\ \A j \in JobsOf(DB, e1) : j[2] = "A" => jobs[j].complete
    /\ \E j \in JobsOf(DB, e2) : j[2] = "Q" /\ jobs[j].ready /\ ~jobs[j].complete


\* The event status computed from the step results in the next state.
event_status_next(ev) ==
  get_status({get_status(jobs'[j].step_results) : j \in JobsOf(DB, ev)})

\* C2: once the aggregated status of an event that is not fully complete is
\* Failed or Canceled, make_jobs_ready changes no job's ready flag wherever
\* the program calls it, the status stays Failed or Canceled, and no step of
\* the system (a job completion, a make_jobs_ready call, an ingestion) takes
\* a job of the event from not ready to ready.
C2_NoReadyAfterFailure ==
  /\ [](\A c \in ReadyCalls :
          (event_status(c[1], c[2]) \in {"FAILED", "CANCELED"} /\ ~FullyComplete(c[1], c[2]))
            => make_jobs_ready(c[1], c[2]).jobs = c[1].jobs)
  /\ [][\A ev \in DOMAIN events :
          (event_status(DB, ev) \in {"FAILED", "CANCELED"} /\ ~FullyComplete(DB, ev))
            => /\ \A j \in JobsOf(DB, ev) : jobs'[j].ready => jobs[j].ready
               /\ event_status_next(ev) \in {"FAILED", "CANCELED"}]_vars

\* C2 witness: an event that is not fully complete has status Failed, and the
\* job of B is active and still not ready although every job of its
\* dependency recipes is complete.
C2_Witness ==
  \E ev \in DOMAIN events :
    /\ event_status(DB, ev) = "FAILED"
    /\ ~FullyComplete(DB, ev)
    /\ \E j \in JobsOf(DB, ev) :
         /\ j[2] = "B" /\ jobs[j].active /\ ~jobs[j].ready
         /\ DependenciesComplete(DB, j)

\* Recipe.abort_on_failure: A is the recipe configured as non-fatal.
abort_on_failure(r) == r # "A"

\* The event status with a Failed job of a non-fatal recipe counted as
\* FailedOk.
reclassified_status(d, ev) ==
  get_status({IF job_status(d, j) = "FAILED" /\ ~abort_on_failure(j[2])
              THEN "FAILED_OK" ELSE job_status(d, j) : j \in JobsOf(d, ev)})

\* C3: a job whose aggregated step outcome is Failed and whose recipe is
\* non-fatal counts as FailedOk in the event status make_jobs_ready computes:
\* in an event that is not fully complete and has no other failure or
\* cancellation, every active job whose dependencies are complete has been
\* released.
C3_NonFatalFailureDoesNotBlock ==
  \A ev \in DOMAIN events :
    (~FullyComplete(DB, ev) /\ reclassified_status(DB, ev) \notin {"FAILED", "CANCELED"})
      => ReadyIffDependenciesComplete(DB, ev)

\* The dominance order of the outcomes, most dominant first.
Dominance == <<"FAILED", "CANCELED", "FAILED_OK", "RUNNING", "NOT_STARTED", "SUCCESS">>

Rank(s) == CHOOSE i \in 1..Len(Dominance) : Dominance[i] = s

\* C4: get_status is total and depends only on the outcomes present: it
\* returns the most dominant recognized member of the set under Failed >
\* Canceled > FailedOk > Running > NotStarted > Success, and Success when the
\* set holds no recognized outcome.
C4_GetStatusMostDominant ==
  status_out # "none" =>
    LET present == status_in \cap JobStatus
    IN /\ status_out \in JobStatus
       /\ present = {} => status_out = "SUCCESS"
       /\ present # {} =>
            /\ status_out \in present
            /\ \A s \in present : Rank(status_out) <= Rank(s)
       /\ status_in = {"SUCCESS", "RUNNING", "FAILED_OK"} => status_out = "FAILED_OK"
       /\ status_in = {"FAILED", "CANCELED"} => status_out = "FAILED"

\* C4 witness: get_status has returned Failed for a set that holds Failed,
\* Canceled and an unrecognized value.
C4_Witness ==
  /\ status_in = {"FAILED", "CANCELED", Unrecognized}
  /\ status_out = "FAILED"

\* C5: in every state reached by ingestions, job completions followed by
\* make_jobs_ready, and cancel_event calls, an Event has complete == true if
\* and only if every job it owns has complete == true. It is stated for the
\* events that own a job, where "every job" is not vacuous.
C5_CompleteIffAllJobsComplete ==
  \A ev \in DOMAIN events :
    JobsOf(DB, ev) # {} => (events[ev].complete <=> FullyComplete(DB, ev))

\* The number of jobs of the event, and of its complete jobs.
JobCount(d, ev) == Cardinality(JobsOf(d, ev))

CompleteCount(d, ev) == Cardinality({j \in JobsOf(d, ev) : d.jobs[j].complete})

\* C6: wherever the program calls it, make_jobs_ready(event) sets
\* event.complete exactly when the number of complete jobs of the event
\* equals the number of all its jobs, inactive ones counted: then complete is
\* true and no job is changed; otherwise the Event row is left as it was.
C6_CompleteWhenCountsEqual ==
  \A c \in ReadyCalls :
    LET d == make_jobs_ready(c[1], c[2])
    IN /\ CompleteCount(c[1], c[2]) = JobCount(c[1], c[2])
            => d.events[c[2]].complete /\ d.jobs = c[1].jobs
       /\ CompleteCount(c[1], c[2]) # JobCount(c[1], c[2])
            => d.events = c[1].events

\* C6 witness: one event was marked complete by make_jobs_ready (its status
\* is not Canceled) when its last job completed, and another one is not
\* complete although all its active jobs are, an inactive job being
\* incomplete.
C6_Witness ==
  \E e1 \in DOMAIN events, e2 \in DOMAIN events :
    /\ events[e1].complete /\ events[e1].status # "CANCELED"
    /\ JobsOf(DB, e1) # {}
    /\ ~events[e2].complete
    /\ \A j \in JobsOf(DB, e2) : jobs[j].active => jobs[j].complete
    /\ \E j \in JobsOf(DB, e2) : jobs[j].active
    /\ \E j \in JobsOf(DB, e2) : ~jobs[j].active /\ ~jobs[j].complete

\* C7: after cancel_event(event) every job of the event is complete, every
\* job that was incomplete has status Canceled, every job that was complete
\* keeps its status, and the event is complete with status Canceled.
C7_CancelEventResult ==
  \A ev \in DOMAIN events :
    LET d == cancel_event(DB, ev)
    IN /\ JobsOf(d, ev) = JobsOf(DB, ev)
       /\ \A j \in JobsOf(DB, ev) :
            /\ d.jobs[j].complete
            /\ ~jobs[j].complete => d.jobs[j].status = "CANCELED"
            /\ jobs[j].complete => d.jobs[j].status = jobs[j].status
       /\ d.events[ev].complete
       /\ d.events[ev].status = "CANCELED"

\* C7 witness: a cancelled event in which one job had completed with Success
\* before the cancellation and another was cancelled by it.
C7_Witness ==
  \E ev \in DOMAIN events :
    /\ events[ev].complete /\ events[ev].status = "CANCELED"
    /\ \E j \in JobsOf(DB, ev) : jobs[j].complete /\ jobs[j].status = "SUCCESS"
    /\ \E j \in JobsOf(DB, ev) : jobs[j].complete /\ jobs[j].status = "CANCELED"
    /\ FullyComplete(DB, ev)

\* C8: cancel_event is idempotent: a second call right after the first
\* leaves every table as the first call left it.
C8_CancelEventIdempotent ==
  \A ev \in DOMAIN events :
    cancel_event(cancel_event(DB, ev), ev) = cancel_event(DB, ev)

\* C8 witness: an event with several jobs has been cancelled while none of
\* them was complete, so that a further cancel_event finds it cancelled.
C8_Witness ==
  \E ev \in DOMAIN events :
    /\ events[ev].complete /\ events[ev].status = "CANCELED"
    /\ cancel_event(DB, ev) = DB
    /\ Cardinality(JobsOf(DB, ev)) >= 2
    /\ \A j \in JobsOf(DB, ev) : jobs[j].status = "CANCELED" /\ jobs[j].step_results = {}

\* C9 as stated: right after cancel_event all jobs of the event show outcome
\* Canceled.
C9_AllJobsCanceled ==
  \A ev \in DOMAIN events :
    \A j \in JobsOf(DB, ev) : cancel_event(DB, ev).jobs[j].status = "CANCELED"

\* C9 as amended: right after cancel_event every job of the event that had
\* not completed before the call shows outcome Canceled, and a job that had
\* completed before shows the outcome it completed with.
C9_UnfinishedJobsCanceled ==
  \A ev \in DOMAIN events :
    \A j \in JobsOf(DB, ev) :
      cancel_event(DB, ev).jobs[j].status =
        (IF jobs[j].complete THEN jobs[j].status ELSE "CANCELED")

\* C9 witness: a cancelled event in which one job shows Failed, the outcome
\* it had completed with, and another shows Canceled.
C9_Witness ==
  \E ev \in DOMAIN events :
    /\ events[ev].status = "CANCELED"
    /\ \E j \in JobsOf(DB, ev) : jobs[j].status = "FAILED"
    /\ \E j \in JobsOf(DB, ev) : jobs[j].status = "CANCELED"

\* C10: however often PushEvent.save runs for one push payload, there is one
\* Event for that payload and one Job for each (recipe, configuration,
\* event).
C10_PushCreatesNoSecondEvent ==
  \A k \in PushKeys : Cardinality(EventsWithKey(DB, k)) <= 1

\* The Events and Jobs of two databases are the same rows, and each job's
\* active, ready, complete and status and each event's complete and status
\* are the same.
SameEventsAndJobs(d1, d2) ==
  /\ DOMAIN d1.events = DOMAIN d2.events
  /\ DOMAIN d1.jobs = DOMAIN d2.jobs
  /\ \A j \in DOMAIN d1.jobs :
       /\ d1.jobs[j].active = d2.jobs[j].active
       /\ d1.jobs[j].ready = d2.jobs[j].ready
       /\ d1.jobs[j].complete = d2.jobs[j].complete
       /\ d1.jobs[j].status = d2.jobs[j].status
  /\ \A e \in DOMAIN d1.events :
       /\ d1.events[e].complete = d2.events[e].complete
       /\ d1.events[e].status = d2.events[e].status

\* The payloads already saved once: the manual keys with a manual event and
\* the pull request (number, key) pairs with an event of that pull request
\* that got its jobs.
SavedManual == {k \in ManualKeys : ManualEvent_lookup(DB, k) \in DOMAIN events}

SavedPullRequests ==
  {c \in PRNumbers \X PRKeys :
     /\ PullRequestEvent_lookup(DB, c[2]) \in DOMAIN events
     /\ events[PullRequestEvent_lookup(DB, c[2])].pull_request = c[1]
     /\ JobsOf(DB, PullRequestEvent_lookup(DB, c[2])) # {}}

\* C11: ManualEvent.save or PullRequestEvent.save (opened, reopened,
\* synchronize) invoked a second time with the input of the first leaves the
\* set of Events and Jobs unchanged, and every job's active, ready, complete
\* and status and every event's complete and status as they were just
\* before the second invocation.
C11_SecondSaveChangesNothing ==
  /\ \A k \in SavedManual : SameEventsAndJobs(ManualEvent_save(DB, k), DB)
  /\ \A c \in SavedPullRequests, action \in SaveActions, env \in AllPREnvironments :
       SameEventsAndJobs(
         PullRequestEvent_save(DB, c[1], action, c[2], TriggerUser(c[2]),
                               env[1], env[2], env[3]), DB)

LiveEvents(n) ==
  {e \in DOMAIN events :
     /\ events[e].pull_request = n
     /\ ~events[e].complete
     /\ events[e].status # "CANCELED"}

active_for_trigger(r, user, remote) ==
  IF Recipe[r].automatic = "FULL_AUTO" THEN TRUE
  ELSE IF Recipe[r].automatic = "MANUAL" THEN FALSE
  ELSE user \in Recipe[r].auto_authorized \/ is_collaborator(user, RepoOwner, remote)

\* C14: a job created by PullRequestEvent ingestion is active when the
\* recipe policy is full-auto, not active when it is manual, and for
\* auto-for-authorized active if and only if the user who triggered the
\* event is in the recipe's authorized list or the collaborator check for
\* that user succeeds.
C14_ActiveFollowsTriggerUser ==
  [][\A n \in PRNumbers, k \in PRKeys, action \in SaveActions,
        remote \in RemoteCollaborators, post \in PostOutcomes :
       PullRequestSave(n, action, k, "ok", remote, post) =>
         \A j \in DOMAIN jobs' \ DOMAIN jobs :
           jobs'[j].active = active_for_trigger(j[2], TriggerUser(k), remote)]_vars

\* The jobs the recipes matching a pull request event must have under
\* event ev.
PullRequestJobs(ev) ==
  UNION {{<<ev, r, c>> : c \in Recipe[r].build_configs} : r \in RecipesFor("PULL_REQUEST")}

\* C15: in PullRequestEvent.save, an error raised in the fan-out (by the
\* session start, the collaborator check or a notification) neither keeps
\* the matching recipes from having their jobs created nor keeps
\* make_jobs_ready from running for the event: after the save every
\* matching recipe has its job and the event is as make_jobs_ready leaves
\* it.
C15_ErrorDoesNotStopFanOut ==
  [][\A n \in PRNumbers, k \in PRKeys, action \in SaveActions,
        env \in AllPREnvironments :
       PullRequestSave(n, action, k, env[1], env[2], env[3]) =>
         LET ev == PullRequestEvent_lookup(DB, k)
             after == [events |-> events', jobs |-> jobs', prs |-> prs']
         IN /\ PullRequestJobs(ev) \subseteq DOMAIN jobs'
            /\ make_jobs_ready(after, ev) = after]_vars

\* C16: a failure of the remote status update or of the remote comment post
\* during PullRequestEvent ingestion does not raise out of
\* PullRequestEvent.save and blocks neither job creation nor readiness
\* evaluation: when the posts fail in a save that has jobs to create, the
\* fan-out ends without an exception, every matching recipe has its job and
\* save returns what make_jobs_ready makes of that.
C16_FailedPostBlocksNothing ==
  \A n \in PRNumbers, k \in PRKeys, remote \in RemoteCollaborators :
    LET ev == PullRequestEvent_lookup(DB, k)
        done == PullRequestEvent_process_recipes(
                  PullRequestEvent_create_new_pr(DB, n, k, TriggerUser(k)), ev,
                  RecipesFor("PULL_REQUEST"), "ok", remote, "error")
    IN ~(PullRequestJobs(ev) \subseteq DOMAIN jobs) =>
         /\ ~done.raised
         /\ PullRequestJobs(ev) \subseteq DOMAIN done.db.jobs
         /\ \A action \in SaveActions :
              PullRequestEvent_save(DB, n, action, k, TriggerUser(k), "ok", remote, "error")
                = make_jobs_ready(done.db, ev)

\* C16 witness: a pull request event whose jobs were created in a save whose
\* posts failed: it has a job for every matching recipe, an inactive one
\* (for which a comment is posted) among them, and make_jobs_ready has made
\* a job ready.
C16_Witness ==
  \E ev \in DOMAIN events :
    /\ ev[1] = "pr_head_2"
    /\ events[ev].cause = "PULL_REQUEST"
    /\ PullRequestJobs(ev) \subseteq DOMAIN jobs
    /\ \E j \in PullRequestJobs(ev) : ~jobs[j].active
    /\ \E j \in PullRequestJobs(ev) : jobs[j].ready /\ ~jobs[j].complete
    /\ ~events[ev].complete

\* C17: a PullRequestEvent with action closed creates no Event, no Job and
\* no PullRequest and changes no field of an Event or a Job; the existing
\* PullRequest of that number has closed == true afterwards, and nothing
\* changes when there is none.
C17_ClosedOnlyClosesPullRequest ==
  \A n \in PRNumbers, k \in PRKeys, env \in AllPREnvironments :
    LET d == PullRequestEvent_save(DB, n, "CLOSED", k, TriggerUser(k), env[1], env[2], env[3])
    IN /\ d.events = events
       /\ d.jobs = jobs
       /\ DOMAIN d.prs = DOMAIN prs
       /\ n \in DOMAIN prs =>
            /\ d.prs[n].closed
            /\ \A m \in DOMAIN prs \ {n} : d.prs[m] = prs[m]
       /\ n \notin DOMAIN prs => d.prs = prs

\* C17 witness: a pull request has been closed while an event linked to it
\* is incomplete with a job that is ready and not complete.
C17_Witness ==
  \E n \in DOMAIN prs :
    /\ prs[n].closed
    /\ \E ev \in DOMAIN events :
         /\ events[ev].pull_request = n
         /\ ~events[ev].complete
         /\ events[ev].status = "NOT_STARTED"
         /\ \E j \in JobsOf(DB, ev) : jobs[j].ready /\ ~jobs[j].complete
                                        /\ jobs[j].status = "NOT_STARTED"

\* run_claimed_job has returned for run r: a later run has started, or the
\* main loop is back at find_job or its sleep after run r ended.
Returned(r) ==
  /\ r <= run
  /\ runner[r] # "none"
  /\ r < run \/ pc \in {"loop_end", "find_job", "sleep", "stopped"}

\* C18: when the run of a claimed job puts messages 1..n on the message
\* queue and then completes normally, the relay has taken all n messages in
\* the order produced and marked each of them done by the time
\* run_claimed_job returns, hence before the next find_job.
C18_MessagesRelayedBeforeNextClaim ==
  \A r \in Runs :
    Returned(r) /\ runner[r] = "finished" =>
      /\ taken[r] = [i \in 1..produced[r] |-> i]
      /\ unfinished[r] = 0
      /\ ~holding[r]

\* C18 witness: the first run produced MaxMessages messages and finished,
\* and the main loop is at its next find_job.
C18_Witness ==
  /\ pc = "find_job"
  /\ run = 1
  /\ runner[1] = "finished"
  /\ produced[1] = MaxMessages
  /\ Len(taken[1]) = MaxMessages

\* C19: however the job execution ends, Quit is put on the control queue
\* only when every message put on the message queue during the run has been
\* marked done: once Quit has been put, no message of the run is unprocessed.
C19_QuitOnlyAfterMessagesProcessed ==
  pc = "join_updater" => unfinished[run] = 0

\* C20: the relay thread of a job run is joined before the worker starts a
\* new claim cycle, also when the run was ended by an exception: no relay
\* thread is alive when the loop is at find_job or its sleep, and the relay
\* threads of two runs are never alive together.
C20_RelayJoinedBeforeNextClaim ==
  /\ pc \in {"loop_end", "find_job", "sleep"} => \A r \in Runs : updater[r] # "running"
  /\ Cardinality({r \in Runs : updater[r] = "running"}) <= 1

\* C21: once the triggered flag of a signal is set, at any point of the
\* loop, the sleep included, the worker leaves the loop instead of polling: a
\* worker that has polled before makes no further find_job call.
C21_NoPollAfterSignal ==
  [][triggered # {} /\ last_find # "not_called"
       => ~(\E found \in FindOutcomes : FindJob(found))]_vars

\* C22: whenever a job is claimed after an earlier job run, the command
\* queue is empty: no item put on it during or after the earlier run is
\* still there when the next job starts to run.
C22_CommandQueueEmptyAtClaim ==
  [][FindJob("claimed") /\ run > 0 => command_q = <<>>]_vars

\* C23: an exception raised by find_job never ends the loop: it is caught
\* and the turn goes to its end with do_poll true; with no signal triggered
\* and single-shot off the loop then sleeps, and after the sleep polls again.
\* The loop is only ever left on a signal or in single-shot mode.
C23_PollExceptionIsTransient ==
  [][/\ FindJob("raise") => pc' = "loop_end" /\ do_poll'
     /\ LoopEnd /\ last_find = "raise" /\ triggered = {} /\ ~single_shot => pc' = "sleep"
     /\ Sleep => pc' = "find_job"
     /\ pc' = "stopped" => triggered' # {} \/ single_shot']_vars

\* C23 witness: find_job raised, no signal has triggered, single-shot is
\* off and the worker is in its poll sleep.
C23_Witness ==
  /\ last_find = "raise"
  /\ pc = "sleep"
  /\ triggered = {}
  /\ ~single_shot

\* C24: in single-shot mode the loop calls find_job exactly once, runs the
\* claimed job when one was returned, and then stops: it never sleeps and
\* never polls a second time, whatever find_job and the run did.
C24_SingleShotOneCycle ==
  [][single_shot =>
       /\ (\E found \in FindOutcomes : FindJob(found)) => last_find = "not_called"
       /\ FindJob("claimed") => pc' = "run_job"
       /\ LoopEnd => pc' = "stopped"
       /\ pc' # "sleep"
       /\ pc' = "stopped" => last_find' # "not_called"
       /\ run' > 0 => last_find' = "claimed"]_vars

\* C24 witness: a single-shot worker has claimed a job, run it to its end
\* and stopped.
C24_Witness ==
  /\ single_shot
  /\ pc = "stopped"
  /\ run > 0
  /\ runner[run] = "finished"
  /\ updater[run] = "exited"

\* C30: when a signal has triggered and every find_job call and job run
\* terminates, the loop eventually reaches its stopped state, and it does so
\* at the end of the turn it was in or about to start: the end of a turn
\* reached with a signal triggered always leaves the loop.
C30_SignalLeadsToStopped ==
  /\ (triggered # {}) ~> (pc = "stopped")
  /\ [][triggered # {} /\ LoopEnd => pc' = "stopped"]_vars

\* C30 witness: a signal triggered, the worker ran a claimed job to its end
\* and is stopped.
C30_Witness ==
  /\ triggered # {}
  /\ pc = "stopped"
  /\ run > 0
  /\ runner[run] # "none"
  /\ ~single_shot

\* C25: make_jobs_ready called on an event that has no jobs changes
\* nothing: no field of the event, event.complete included, and no job.
C25_NoJobsIsNoOp ==
  \A ev \in DOMAIN events :
    JobsOf(DB, ev) = {} => make_jobs_ready(DB, ev) = DB

\* C26: in every state reached by ingestion, make_jobs_ready and
\* cancel_event a job that is ready is active; a job of a recipe with the
\* manual policy in a push or pull request event is inactive, and so never
\* ready, also when all it depends on is complete.
C26_ReadyJobsAreActive ==
  /\ \A j \in DOMAIN jobs : jobs[j].ready => jobs[j].active
  /\ \A j \in DOMAIN jobs :
       Recipe[j[2]].automatic = "MANUAL" /\ events[j[1]].cause \in {"PUSH", "PULL_REQUEST"}
         => ~jobs[j].active
  /\ ~NewJob.ready /\ ~NewJob.complete

\* C26 witness: an event has a ready job next to an inactive job that has
\* its depends met and is not ready.
C26_Witness ==
  \E ev \in DOMAIN events :
    \E j1 \in JobsOf(DB, ev), j2 \in JobsOf(DB, ev) :
      /\ jobs[j1].ready
      /\ ~jobs[j1].complete
      /\ ~jobs[j2].active
      /\ ~jobs[j2].ready
      /\ depends_met(DB, ev, j2)

\* An event that has jobs, all of them active.
AllJobsActive(ev) ==
  /\ ev \in DOMAIN events
  /\ JobsOf(DB, ev) # {}
  /\ \A j \in JobsOf(DB, ev) : jobs[j].active

\* A step of a job of the event failed or was canceled, or the event or one
\* of its jobs was canceled.
FailedOrCanceled(ev) ==
  /\ ev \in DOMAIN events
  /\ \/ events[ev].status = "CANCELED"
     \/ \E j \in JobsOf(DB, ev) :
          \/ jobs[j].status \in {"FAILED", "CANCELED"}
          \/ jobs[j].step_results \cap {"FAILED", "CANCELED"} # {}

\* Every job of the event is ready and complete and the event is complete.
AllReadyAndComplete(ev) ==
  /\ ev \in DOMAIN events
  /\ events[ev].complete
  /\ \A j \in JobsOf(DB, ev) : jobs[j].ready /\ jobs[j].complete

\* C27: for an event whose jobs are all active (the recipe dependencies are
\* acyclic), when every ready job is eventually completed with
\* make_jobs_ready run after it, then, unless a step fails or is canceled,
\* every job of the event becomes ready and the event gets complete == true.
C27_AllActiveEventCompletes ==
  \A ev \in EventIds : AllJobsActive(ev) ~> (FailedOrCanceled(ev) \/ AllReadyAndComplete(ev))

\* C27 witness: an event with two jobs, one depending on the other, all
\* active, has both jobs ready and complete with no failure and is complete.
C27_Witness ==
  \E ev \in DOMAIN events :
    /\ AllJobsActive(ev)
    /\ \E j \in JobsOf(DB, ev) : \E k \in JobsOf(DB, ev) : k[2] \in Recipe[j[2]].dependencies
    /\ AllReadyAndComplete(ev)
    /\ ~FailedOrCanceled(ev)

\* C28: after a pull request save with action opened, reopened or
\* synchronize and a matching recipe, the Event of the ingested (base, head)
\* is not Canceled and none of its jobs is, also when the Event of that pair
\* was superseded by another Event of the pull request and canceled before.
C28_ReingestedEventNotCanceled ==
  \A n \in PRNumbers, k \in PRKeys, action \in SaveActions :
    LET ev == PullRequestEvent_lookup(DB, k)
    IN /\ ev \in DOMAIN events
       /\ events[ev].status = "CANCELED"
       /\ events[ev].pull_request = n
       /\ \E o \in DOMAIN events : o # ev /\ events[o].pull_request = n
       => LET after == PullRequestEvent_save(DB, n, action, k, TriggerUser(k), "ok", {}, "ok")
          IN /\ after.events[ev].status # "CANCELED"
             /\ \A j \in JobsOf(after, ev) : after.jobs[j].status # "CANCELED"

\* What make_jobs_ready(ev) may change in database d: complete of the event
\* and ready of the jobs of the event.
make_jobs_ready_frame(d, ev) ==
  LET m == make_jobs_ready(d, ev)
  IN /\ DOMAIN m.events = DOMAIN d.events
     /\ DOMAIN m.jobs = DOMAIN d.jobs
     /\ m.prs = d.prs
     /\ \A o \in DOMAIN d.events :
          m.events[o] = IF o = ev THEN [d.events[o] EXCEPT !.complete = m.events[o].complete]
                        ELSE d.events[o]
     /\ \A j \in DOMAIN d.jobs :
          m.jobs[j] = IF j[1] = ev THEN [d.jobs[j] EXCEPT !.ready = m.jobs[j].ready]
                      ELSE d.jobs[j]

\* What cancel_event(ev) may change in database d: complete and status of
\* the event and of the jobs of the event.
cancel_event_frame(d, ev) ==
  LET c == cancel_event(d, ev)
  IN /\ DOMAIN c.events = DOMAIN d.events
     /\ DOMAIN c.jobs = DOMAIN d.jobs
     /\ c.prs = d.prs
     /\ \A o \in DOMAIN d.events :
          c.events[o] = IF o = ev
                        THEN [d.events[o] EXCEPT !.complete = c.events[o].complete,
                                                 !.status = c.events[o].status]
                        ELSE d.events[o]
     /\ \A j \in DOMAIN d.jobs :
          c.jobs[j] = IF j[1] = ev
                      THEN [d.jobs[j] EXCEPT !.complete = c.jobs[j].complete,
                                             !.status = c.jobs[j].status]
                      ELSE d.jobs[j]

\* C29: make_jobs_ready(E) and cancel_event(E) change no Event other than E
\* and no job of another Event; make_jobs_ready changes no job's complete,
\* status or active and not E.status; cancel_event changes no job's ready or
\* active.  Checked on every reachable database, and for make_jobs_ready
\* also on the database a completed job leaves for it.
C29_FrameOfReadyAndCancel ==
  /\ \A ev \in DOMAIN events : make_jobs_ready_frame(DB, ev) /\ cancel_event_frame(DB, ev)
  /\ \A j \in Claimable(DB) : \A steps \in StepOutcomes :
       make_jobs_ready_frame(job_complete(DB, j, steps), j[1])

\* C29 witness: of two events with jobs one was canceled, and in the other
\* a job is complete and the job depending on it is ready and not started.
C29_Witness ==
  \E e1 \in DOMAIN events, e2 \in DOMAIN events :
    /\ e1 # e2
    /\ events[e1].status = "CANCELED"
    /\ \E j \in JobsOf(DB, e1) : jobs[j].status = "CANCELED"
    /\ events[e2].status # "CANCELED"
    /\ \E j \in JobsOf(DB, e2), k \in JobsOf(DB, e2) :
         /\ j[2] \in Recipe[k[2]].dependencies
         /\ jobs[j].complete
         /\ jobs[k].ready /\ ~jobs[k].complete /\ jobs[k].status = "NOT_STARTED"

====
